---------------------------- MODULE Spec2Model ----------------------------
(***************************************************************************)
(* Guster gesture daemon (src/Guster-daemon.py).                           *)
(*                                                                         *)
(* The model follows run_daemon's read loop line by line and the           *)
(* GestureCollector methods at the granularity of their `with self.lock`   *)
(* blocks: acquiring the lock is one step, the body of a critical section  *)
(* (which ends by releasing the lock) is the next.                         *)
(*                                                                         *)
(* Floats are modelled by integers: every delta token of the model is a    *)
(* whole number, on which Python's float arithmetic is exact.  The ratio   *)
(* axis_ratio is kept as a fraction num/den.                               *)
(***************************************************************************)
EXTENDS Integers, Sequences, FiniteSets, TLC

(* ------------------------------ bounds --------------------------------- *)

\* number of lines the upstream process emits at most in one run
MaxLines == 4

(* ----------------------------- constants ------------------------------- *)

\* Python's None where a string is expected, and where a tuple is expected
None == "None"
NoneT == <<>>
Free == "free"
Main == "main"
Threads == {Main}

ValueError == [raised |-> TRUE, value |-> 0]
Value(n) == [raised |-> FALSE, value |-> n]

\* CONFIG_DEFAULT['threshold']
PX_MIN_DEFAULT == 50
AXIS_RATIO_DEFAULT == [num |-> 3, den |-> 2]

\* the key f"{f}_{direction}" is the pair <<f, direction>>
CONFIG_DEFAULT ==
  [ threshold |-> [px_min |-> PX_MIN_DEFAULT, axis_ratio |-> AXIS_RATIO_DEFAULT],
    gestures  |-> ( <<3, "left">>  :> "xdotool key ctrl+Page_Up"
                 @@ <<3, "right">> :> "xdotool key ctrl+Page_Down"
                 @@ <<4, "left">>  :> "wmctrl -s prev"
                 @@ <<4, "right">> :> "wmctrl -s next"
                 @@ <<4, "up">>    :> "xdotool key Super"
                 @@ <<4, "down">>  :> "xdotool key Super" ) ]

(* --------------------------- text of a line ---------------------------- *)

Digits == {"0", "1", "2", "3", "4", "5", "6", "7", "8", "9"}

DigitVal ==
  "0" :> 0 @@ "1" :> 1 @@ "2" :> 2 @@ "3" :> 3 @@ "4" :> 4 @@
  "5" :> 5 @@ "6" :> 6 @@ "7" :> 7 @@ "8" :> 8 @@ "9" :> 9

\* tokens are sequences of characters
FingerTokens == { <<"3">>, <<"4">> }

GoodDeltaTokens == { <<"6", "0">>, <<"-", "6", "0">>, <<"0">> }
BadDeltaTokens  == { <<"1", ".", "2", ".", "3">>, <<"-">> }
DeltaTokens == GoodDeltaTokens \cup BadDeltaTokens

\* a line of libinput output: the marker it carries and the scanned fields
BeginLines  == { [marker |-> "GESTURE_SWIPE_BEGIN",  f1 |-> n, f2 |-> <<>>] : n \in FingerTokens }
UpdateLines == { [marker |-> "GESTURE_SWIPE_UPDATE", f1 |-> a, f2 |-> b] : a \in DeltaTokens, b \in DeltaTokens }
EndLines    == { [marker |-> "GESTURE_SWIPE_END",    f1 |-> n, f2 |-> <<>>] : n \in FingerTokens }
OtherLines  == { [marker |-> "POINTER_MOTION",       f1 |-> <<>>, f2 |-> <<>>] }
Lines == BeginLines \cup UpdateLines \cup EndLines \cup OtherLines

RECURSIVE DigitsValue(_)
DigitsValue(s) ==
  IF Len(s) = 0 THEN 0
  ELSE 10 * DigitsValue(SubSeq(s, 1, Len(s) - 1)) + DigitVal[s[Len(s)]]

\* int() of a \d+ group
int(tok) == DigitsValue(tok)

\* float() of a [\-0-9\.]+ group: an optional sign, then digits with at most
\* one point and at least one digit; anything else raises ValueError.
\* Fraction digits of the model's tokens are zero, so the value is a whole number.
float(tok) ==
  LET neg   == Len(tok) > 0 /\ tok[1] = "-"
      body  == IF neg THEN SubSeq(tok, 2, Len(tok)) ELSE tok
      dots  == { i \in 1..Len(body) : body[i] = "." }
      digs  == { i \in 1..Len(body) : body[i] \in Digits }
      wellformed == /\ Cardinality(dots) <= 1
                    /\ Cardinality(digs) >= 1
                    /\ Cardinality(dots) + Cardinality(digs) = Len(body)
      intlen == IF dots = {} THEN Len(body) ELSE (CHOOSE i \in dots : TRUE) - 1
      mag   == DigitsValue(SubSeq(body, 1, intlen))
  IN IF ~wellformed THEN ValueError
     ELSE Value(IF neg THEN 0 - mag ELSE mag)

(* --------------------------- configuration ----------------------------- *)

EmptyMap == [k \in {} |-> None]

\* what yaml.safe_load returns for the user's file; a section the file does
\* not have is the empty mapping that cfg.get(section, {}) falls back to
UserConfigs ==
  { [gestures |-> EmptyMap, threshold |-> EmptyMap],
    [gestures |-> (<<3, "up">> :> "cmd-A"), threshold |-> EmptyMap],
    [gestures |-> (<<3, "left">> :> ""), threshold |-> ("px_min" :> 100)] }

\* dict.update: the keys of `other` override, the remaining keys are kept
dict_update(d, other) == other @@ d

\* dict.copy() that hands back the dictionary itself instead of a copy
dict_copy_aliased(heap, src, fresh) == [heap |-> heap, ref |-> src]

\* dict.copy(): a new dictionary object with the entries of heap[src]
dict_copy(heap, src, fresh) == [heap |-> (fresh :> heap[src]) @@ heap, ref |-> fresh]

\* load_or_create_config from `merged = CONFIG_DEFAULT.copy()` on, over the
\* dictionary objects involved: DG and DT are the two sections of the
\* CONFIG_DEFAULT table, UG and UT those of the user's file.  The result is
\* the merged configuration and the CONFIG_DEFAULT table as the merge leaves it.
merge_config(cfg) ==
  LET h0 == [DG |-> CONFIG_DEFAULT.gestures, DT |-> CONFIG_DEFAULT.threshold,
             UG |-> cfg.gestures, UT |-> cfg.threshold]
      \* merged = CONFIG_DEFAULT.copy(); merged.update(cfg)
      m0 == [gestures  |-> IF cfg.gestures = EmptyMap THEN "DG" ELSE "UG",
             threshold |-> IF cfg.threshold = EmptyMap THEN "DT" ELSE "UT"]
      \* merged['gestures'] = CONFIG_DEFAULT['gestures'].copy()
      c1 == dict_copy(h0, "DG", "MG")
      m1 == [m0 EXCEPT !.gestures = c1.ref]
      \* merged['gestures'].update(user_g)
      h2 == [c1.heap EXCEPT ![m1.gestures] = dict_update(c1.heap[m1.gestures], cfg.gestures)]
      \* merged['threshold'] = CONFIG_DEFAULT['threshold'].copy()
      c3 == dict_copy(h2, "DT", "MT")
      m3 == [m1 EXCEPT !.threshold = c3.ref]
      \* merged['threshold'].update(cfg.get('threshold', {}))
      h4 == [c3.heap EXCEPT ![m3.threshold] = dict_update(c3.heap[m3.threshold], cfg.threshold)]
  IN [ merged   |-> [gestures |-> h4[m3.gestures], threshold |-> h4[m3.threshold]],
       defaults |-> [gestures |-> h4["DG"], threshold |-> h4["DT"]] ]

load_or_create_config(cfg) == merge_config(cfg).merged

\* dict.get: None for a missing key
dict_get(d, k) == IF k \in DOMAIN d THEN d[k] ELSE None

\* truth value of `cmd` in `if cmd:` / `if not command:`
Truthy(cmd) == cmd # None /\ cmd # ""

(* ------------------------- direction heuristic ------------------------- *)

abs(x) == IF x < 0 THEN 0 - x ELSE x
max(a, b) == IF a >= b THEN a ELSE b

\* the dominance test without the ratio
GeqIgnoringRatio(ax, ay, ratio) == ax >= ay

\* ax >= ay * ratio, with ratio = num/den and den > 0
GeqTimesRatio(ax, ay, ratio) == ax * ratio.den >= ay * ratio.num

\* determine_direction with the vertical directions exchanged
determine_direction_flipped_y(dx, dy, threshold) ==
  LET ax == abs(dx)
      ay == abs(dy)
  IN IF max(ax, ay) < threshold.px_min THEN None
     ELSE IF GeqTimesRatio(ax, ay, threshold.axis_ratio)
          THEN (IF dx > 0 THEN "right" ELSE "left")
     ELSE IF GeqTimesRatio(ay, ax, threshold.axis_ratio)
          THEN (IF dy > 0 THEN "up" ELSE "down")
     ELSE None

\* determine_direction without the px_min test
determine_direction_no_minimum(dx, dy, threshold) ==
  LET ax == abs(dx)
      ay == abs(dy)
  IN IF GeqTimesRatio(ax, ay, threshold.axis_ratio)
          THEN (IF dx > 0 THEN "right" ELSE "left")
     ELSE IF GeqTimesRatio(ay, ax, threshold.axis_ratio)
          THEN (IF dy > 0 THEN "down" ELSE "up")
     ELSE None

determine_direction(dx, dy, threshold) ==
  LET ax == abs(dx)
      ay == abs(dy)
  IN IF max(ax, ay) < threshold.px_min THEN None
     ELSE IF GeqTimesRatio(ax, ay, threshold.axis_ratio)
          THEN (IF dx > 0 THEN "right" ELSE "left")
     ELSE IF GeqTimesRatio(ay, ax, threshold.axis_ratio)
          THEN (IF dy > 0 THEN "down" ELSE "up")
     ELSE None

(* ------------------------------- state --------------------------------- *)

VARIABLES
  cfg,              \* run_daemon: the merged configuration
  dry_run,          \* run_daemon: the dry-run flag
  lock,             \* GestureCollector.lock: Free or the thread holding it
  active,           \* GestureCollector.active
  fingers,          \* GestureCollector.fingers
  total_dx,         \* GestureCollector.total_dx
  total_dy,         \* GestureCollector.total_dy
  last_time,        \* GestureCollector.last_time
  pc,               \* position of each thread
  arg,              \* arguments of the collector call a thread is making
  snap,             \* end(): the locals f, dx, dy
  res,              \* run_daemon: res, the value collector.end returned
  line,             \* run_daemon: the line read last
  nread,            \* number of lines read so far
  proc_terminated,  \* proc.terminate() has been called
  out,              \* what the run loop reported, in order
  invoked,          \* the calls of execute_action, in order
  launched,         \* the commands handed to subprocess.Popen, in order
  pre,              \* history: the session as the last collector call found it
  lastop,           \* history: the last collector call that completed
  prevop,           \* history: the collector call that completed before lastop
  ngest,            \* history: number of end calls that found the session active
  nbegin,           \* history: number of begin calls completed
  sum_dx,           \* history: sum of the dx of the update calls since the last begin call
  sum_dy,           \* history: sum of the dy of the update calls since the last begin call
  probe             \* a function of the program applied on its own: its name, input and result

session == <<active, fingers, total_dx, total_dy, last_time>>
history == <<pre, lastop, prevop, ngest, nbegin, sum_dx, sum_dy>>
reports == <<out, invoked, launched>>
vars == <<cfg, dry_run, lock, active, fingers, total_dx, total_dy, last_time,
          pc, arg, snap, res, line, nread, proc_terminated,
          out, invoked, launched, pre, lastop, prevop, ngest, nbegin, sum_dx, sum_dy,
          probe>>

NoLine == [marker |-> "", f1 |-> <<>>, f2 |-> <<>>]
NoArg  == [n |-> 0, dx |-> 0, dy |-> 0]

NoProbe == [fn |-> None]

\* time.time(): the lines read so far serve as the clock
Now == nread

\* a freshly constructed GestureCollector (__init__ has run reset()), and
\* nothing read, reported or launched yet
InitCollector ==
  /\ lock = Free
  /\ active = FALSE
  /\ fingers = 0
  /\ total_dx = 0
  /\ total_dy = 0
  /\ last_time = NoneT
  /\ res = NoneT
  /\ line = NoLine
  /\ nread = 0
  /\ proc_terminated = FALSE
  /\ out = <<>>
  /\ invoked = <<>>
  /\ launched = <<>>
  /\ pre = session
  /\ lastop = None
  /\ prevop = None
  /\ ngest = 0
  /\ nbegin = 0
  /\ sum_dx = 0
  /\ sum_dy = 0

\* the state when run_daemon enters its read loop: the configuration is
\* loaded and the collector constructed
Init ==
  /\ \E user \in UserConfigs : cfg = load_or_create_config(user)
  /\ dry_run \in BOOLEAN
  /\ InitCollector
  /\ pc = [t \in Threads |-> "read"]
  /\ arg = [t \in Threads |-> NoArg]
  /\ snap = [t \in Threads |-> NoneT]
  /\ probe = NoProbe

(* -------------------------- GestureCollector --------------------------- *)

\* where a call of op returns to: the run loop goes on reading after begin
\* and update and looks at the result of end; any other caller is idle
\* between its calls
AfterCall(t, op) ==
  IF t # Main THEN "idle"
  ELSE IF op = "end" THEN "dispatch" ELSE "read"

LockPoints == {"begin_lock", "update_lock", "end_lock", "reset_lock"}

AfterLock(p) ==
  CASE p = "begin_lock"  -> "begin_cs"
    [] p = "update_lock" -> "update_cs"
    [] p = "end_lock"    -> "end_cs"
    [] p = "reset_lock"  -> "reset_cs"

\* threading.Lock is not reentrant: acquire blocks while anyone holds the
\* lock, the calling thread included
CanAcquire(t) == lock = Free

\* `with self.lock:` / `with getattr(self, 'lock', ...):` entered
Acquire(t) ==
  /\ pc[t] \in LockPoints
  /\ CanAcquire(t)
  /\ lock' = t
  /\ pc' = [pc EXCEPT ![t] = AfterLock(pc[t])]
  /\ UNCHANGED <<probe, cfg, dry_run, session, arg, snap, res, line, nread,
                 proc_terminated, reports, history>>

\* a collector call of thread t has completed
Completed(op) ==
  /\ pre' = session
  /\ prevop' = lastop
  /\ lastop' = op

\* the assignments of reset()
ResetFields ==
  /\ active' = FALSE
  /\ fingers' = 0
  /\ total_dx' = 0
  /\ total_dy' = 0
  /\ last_time' = NoneT

\* begin() that forgets to zero the totals
begin_keeps_totals(t) ==
  /\ pc[t] = "begin_cs"
  /\ active' = TRUE
  /\ fingers' = arg[t].n
  /\ last_time' = <<Now>>
  /\ lock' = Free
  /\ pc' = [pc EXCEPT ![t] = AfterCall(t, "begin")]
  /\ Completed("begin")
  /\ nbegin' = nbegin + 1
  /\ sum_dx' = 0
  /\ sum_dy' = 0
  /\ UNCHANGED <<probe, cfg, dry_run, total_dx, total_dy, arg, snap, res, line, nread,
                 proc_terminated, reports, ngest>>

begin(t) ==
  /\ pc[t] = "begin_cs"
  /\ active' = TRUE
  /\ fingers' = arg[t].n
  /\ total_dx' = 0
  /\ total_dy' = 0
  /\ last_time' = <<Now>>
  /\ lock' = Free
  /\ pc' = [pc EXCEPT ![t] = AfterCall(t, "begin")]
  /\ Completed("begin")
  /\ nbegin' = nbegin + 1
  /\ sum_dx' = 0
  /\ sum_dy' = 0
  /\ UNCHANGED <<probe, cfg, dry_run, arg, snap, res, line, nread, proc_terminated,
                 reports, ngest>>

\* update() that stores the delta instead of adding it
update_overwrites(t) ==
  /\ pc[t] = "update_cs"
  /\ IF ~active
       THEN UNCHANGED session
       ELSE /\ total_dx' = arg[t].dx
            /\ total_dy' = arg[t].dy
            /\ last_time' = <<Now>>
            /\ UNCHANGED <<active, fingers>>
  /\ lock' = Free
  /\ pc' = [pc EXCEPT ![t] = AfterCall(t, "update")]
  /\ Completed("update")
  /\ sum_dx' = sum_dx + arg[t].dx
  /\ sum_dy' = sum_dy + arg[t].dy
  /\ UNCHANGED <<probe, cfg, dry_run, arg, snap, res, line, nread, proc_terminated,
                 reports, ngest, nbegin>>

\* update() without the `if not self.active: return`
update_unguarded(t) ==
  /\ pc[t] = "update_cs"
  /\ total_dx' = total_dx + arg[t].dx
  /\ total_dy' = total_dy + arg[t].dy
  /\ last_time' = <<Now>>
  /\ UNCHANGED <<active, fingers>>
  /\ lock' = Free
  /\ pc' = [pc EXCEPT ![t] = AfterCall(t, "update")]
  /\ Completed("update")
  /\ sum_dx' = sum_dx + arg[t].dx
  /\ sum_dy' = sum_dy + arg[t].dy
  /\ UNCHANGED <<probe, cfg, dry_run, arg, snap, res, line, nread, proc_terminated,
                 reports, ngest, nbegin>>

update(t) ==
  /\ pc[t] = "update_cs"
  /\ IF ~active
       THEN UNCHANGED session
       ELSE /\ total_dx' = total_dx + arg[t].dx
            /\ total_dy' = total_dy + arg[t].dy
            /\ last_time' = <<Now>>
            /\ UNCHANGED <<active, fingers>>
  /\ lock' = Free
  /\ pc' = [pc EXCEPT ![t] = AfterCall(t, "update")]
  /\ Completed("update")
  /\ sum_dx' = sum_dx + arg[t].dx
  /\ sum_dy' = sum_dy + arg[t].dy
  /\ UNCHANGED <<probe, cfg, dry_run, arg, snap, res, line, nread, proc_terminated,
                 reports, ngest, nbegin>>

\* end() that returns (f, dx, dy) without calling self.reset()
end_enter_no_reset(t) ==
  IF ~active
    THEN /\ res' = NoneT
         /\ lock' = Free
         /\ pc' = [pc EXCEPT ![t] = AfterCall(t, "end")]
         /\ Completed("end")
         /\ UNCHANGED <<session, snap, ngest>>
    ELSE /\ snap' = [snap EXCEPT ![t] = <<arg[t].n, total_dx, total_dy>>]
         /\ res' = <<arg[t].n, total_dx, total_dy>>
         /\ lock' = Free
         /\ pc' = [pc EXCEPT ![t] = AfterCall(t, "end")]
         /\ ngest' = ngest + 1
         /\ Completed("end")
         /\ UNCHANGED session

\* end() without the `if not self.active: return None`
end_enter_unguarded(t) ==
  /\ snap' = [snap EXCEPT ![t] = <<arg[t].n, total_dx, total_dy>>]
  /\ pc' = [pc EXCEPT ![t] = "reset_lock"]
  /\ ngest' = ngest + 1
  /\ UNCHANGED <<session, lock, res, pre, lastop, prevop>>

\* end() up to its call of self.reset(): the lock is held
end_enter(t) ==
  IF ~active
    THEN /\ res' = NoneT
         /\ lock' = Free
         /\ pc' = [pc EXCEPT ![t] = AfterCall(t, "end")]
         /\ Completed("end")
         /\ UNCHANGED <<session, snap, ngest>>
    ELSE /\ snap' = [snap EXCEPT ![t] = <<arg[t].n, total_dx, total_dy>>]
         /\ pc' = [pc EXCEPT ![t] = "reset_lock"]
         /\ ngest' = ngest + 1
         /\ UNCHANGED <<session, lock, res, pre, lastop, prevop>>

\* the body of reset() called by end(), and end()'s return of (f, dx, dy)
end_reset(t) ==
  /\ ResetFields
  /\ lock' = Free
  /\ res' = snap[t]
  /\ pc' = [pc EXCEPT ![t] = AfterCall(t, "end")]
  /\ Completed("end")
  /\ UNCHANGED <<snap, ngest>>

end(t) ==
  /\ pc[t] \in {"end_cs", "reset_cs"}
  /\ IF pc[t] = "end_cs" THEN end_enter(t) ELSE end_reset(t)
  /\ UNCHANGED <<probe, cfg, dry_run, arg, line, nread, proc_terminated, reports,
                 nbegin, sum_dx, sum_dy>>

(* ------------------------------ run_daemon ----------------------------- *)

\* the three patterns: the groups of the match, or None
LINE_RE_GESTURE_BEGIN(l)  == IF l.marker = "GESTURE_SWIPE_BEGIN"  THEN <<l.f1>> ELSE NoneT
LINE_RE_GESTURE_UPDATE(l) == IF l.marker = "GESTURE_SWIPE_UPDATE" THEN <<l.f1, l.f2>> ELSE NoneT
\* an end pattern that matches whatever the other two patterns left
LINE_RE_GESTURE_END_loose(l) == <<l.f1>>
LINE_RE_GESTURE_END(l)    == IF l.marker = "GESTURE_SWIPE_END"    THEN <<l.f1>> ELSE NoneT

Report(msg, key, cmd) == [msg |-> msg, key |-> key, cmd |-> cmd]

\* `except Exception as e`: report, stop the upstream process, leave the loop
ExceptException ==
  /\ out' = Append(out, Report("error", NoneT, None))
  /\ proc_terminated' = TRUE
  /\ pc' = [pc EXCEPT ![Main] = "done"]

\* one iteration of `for raw_line in proc.stdout` up to the collector call
ReadLine(l) ==
  /\ pc[Main] = "read"
  /\ nread < MaxLines
  /\ nread' = nread + 1
  /\ line' = l
  /\ LET m  == LINE_RE_GESTURE_BEGIN(l)
         m2 == LINE_RE_GESTURE_UPDATE(l)
         m3 == LINE_RE_GESTURE_END(l)
     IN IF m # NoneT
          THEN /\ arg' = [arg EXCEPT ![Main] = [NoArg EXCEPT !.n = int(m[1])]]
               /\ pc' = [pc EXCEPT ![Main] = "begin_lock"]
               /\ UNCHANGED <<out, proc_terminated>>
        ELSE IF m2 # NoneT
          THEN LET dx == float(m2[1])
                   dy == float(m2[2])
               IN IF dx.raised \/ dy.raised
                    THEN /\ ExceptException
                         /\ UNCHANGED arg
                    ELSE /\ arg' = [arg EXCEPT ![Main] = [NoArg EXCEPT !.dx = dx.value, !.dy = dy.value]]
                         /\ pc' = [pc EXCEPT ![Main] = "update_lock"]
                         /\ UNCHANGED <<out, proc_terminated>>
        ELSE IF m3 # NoneT
          THEN /\ arg' = [arg EXCEPT ![Main] = [NoArg EXCEPT !.n = int(m3[1])]]
               /\ pc' = [pc EXCEPT ![Main] = "end_lock"]
               /\ UNCHANGED <<out, proc_terminated>>
        ELSE UNCHANGED <<arg, pc, out, proc_terminated>>
  /\ UNCHANGED <<probe, cfg, dry_run, lock, session, snap, res, invoked, launched, history>>

\* execute_action that does not look at dry_run
execute_action_ignores_dry_run(command, dry, ok) ==
  IF ~Truthy(command)
    THEN [printed |-> <<>>, popen |-> <<>>]
  ELSE [printed |-> << [msg |-> IF ok THEN "executed" ELSE "failed", key |-> NoneT, cmd |-> command] >>,
        popen   |-> << command >>]

\* execute_action(command, dry_run): what it prints and what it hands to
\* subprocess.Popen; ok: Popen does not raise
execute_action(command, dry, ok) ==
  IF ~Truthy(command)
    THEN [printed |-> <<>>, popen |-> <<>>]
  ELSE IF dry
    THEN [printed |-> << Report("would execute", NoneT, command) >>, popen |-> <<>>]
  ELSE [printed |-> << Report(IF ok THEN "executed" ELSE "failed", NoneT, command) >>,
        popen   |-> << command >>]

\* the rest of the iteration once collector.end has returned
Dispatch ==
  /\ pc[Main] = "dispatch"
  /\ pc' = [pc EXCEPT ![Main] = "read"]
  /\ IF res = NoneT
       THEN UNCHANGED reports
       ELSE LET f  == res[1]
                dx == res[2]
                dy == res[3]
                direction == determine_direction(dx, dy, cfg.threshold)
                key == <<f, direction>>
                cmd == dict_get(cfg.gestures, key)
            IN IF direction = None
                 THEN /\ out' = Append(out, Report("ignored (too small)", NoneT, None))
                      /\ UNCHANGED <<invoked, launched>>
               ELSE IF Truthy(cmd)
                 THEN \E ok \in BOOLEAN :
                        LET done == execute_action(cmd, dry_run, ok)
                        IN /\ invoked' = Append(invoked, [command |-> cmd, dry_run |-> dry_run])
                           /\ out' = Append(out, Report("detected", key, None)) \o done.printed
                           /\ launched' = launched \o done.popen
               ELSE /\ out' = out \o << Report("detected", key, None), Report("no mapping", key, None) >>
                    /\ UNCHANGED <<invoked, launched>>
  /\ UNCHANGED <<probe, cfg, dry_run, lock, session, arg, snap, res, line, nread,
                 proc_terminated, history>>

\* proc.stdout is exhausted: the for loop ends and run_daemon returns
EndOfStream ==
  /\ pc[Main] = "read"
  /\ pc' = [pc EXCEPT ![Main] = "done"]
  /\ UNCHANGED <<probe, cfg, dry_run, lock, session, arg, snap, res, line, nread,
                 proc_terminated, reports, history>>

\* reading the next line raises (an OSError, a UnicodeDecodeError)
ReadError ==
  /\ pc[Main] = "read"
  /\ ExceptException
  /\ UNCHANGED <<probe, cfg, dry_run, lock, session, arg, snap, res, line, nread,
                 invoked, launched, history>>

\* KeyboardInterrupt, raised wherever the main thread is, a blocked
\* lock.acquire() included; the `with` blocks it unwinds release the lock
Interrupt ==
  /\ pc[Main] # "done"
  /\ lock' = IF lock = Main THEN Free ELSE lock
  /\ out' = Append(out, Report("exiting (keyboard interrupt)", NoneT, None))
  /\ proc_terminated' = TRUE
  /\ pc' = [pc EXCEPT ![Main] = "done"]
  /\ UNCHANGED <<probe, cfg, dry_run, session, arg, snap, res, line, nread,
                 invoked, launched, history>>

\* a step of the run loop that does not wait for anything outside the process
Internal ==
  \/ Acquire(Main)
  \/ begin(Main)
  \/ update(Main)
  \/ end(Main)
  \/ Dispatch

Next ==
  \/ \E l \in Lines : ReadLine(l)
  \/ EndOfStream
  \/ ReadError
  \/ Interrupt
  \/ Acquire(Main)
  \/ begin(Main)
  \/ update(Main)
  \/ end(Main)
  \/ Dispatch

Spec == Init /\ [][Next]_vars

\* the interpreter keeps running the main thread; lines, end of stream, read
\* errors and interrupts come from outside and may never come
FairSpec == Spec /\ WF_vars(Internal)

(* ------------------- functions applied on their own ------------------ *)

\* largest |dx|, |dy| handed to determine_direction
MaxDelta == 60

ProbeDeltas == (0 - MaxDelta) .. MaxDelta

\* thresholds with px_min > 0 and axis_ratio > 1
ProbeThresholds ==
  { [px_min |-> m, axis_ratio |-> r] :
      m \in {1, PX_MIN_DEFAULT},
      r \in { AXIS_RATIO_DEFAULT, [num |-> 2, den |-> 1], [num |-> 9, den |-> 8] } }

\* the sections a user's file may hold
ProbeUserGestures ==
  UNION { [ks -> {"cmd-A", ""}] : ks \in SUBSET { <<3, "left">>, <<3, "up">> } }
ProbeUserThresholds ==
  { EmptyMap,
    "px_min" :> 100,
    "axis_ratio" :> [num |-> 2, den |-> 1],
    [px_min |-> 100, axis_ratio |-> [num |-> 2, den |-> 1]] }

ProbeCommands == { "cmd-A", "xdotool key Super", "", None }

DirectionProbes ==
  { [fn |-> "determine_direction", dx |-> x, dy |-> y, threshold |-> th, done |-> FALSE, result |-> None] :
      x \in ProbeDeltas, y \in ProbeDeltas, th \in ProbeThresholds }
ConfigProbes ==
  { [fn |-> "load_or_create_config", user |-> [gestures |-> g, threshold |-> th], done |-> FALSE, result |-> None] :
      g \in ProbeUserGestures, th \in ProbeUserThresholds }
ActionProbes ==
  { [fn |-> "execute_action", command |-> c, dry_run |-> d, ok |-> k, done |-> FALSE, result |-> None] :
      c \in ProbeCommands, d \in BOOLEAN, k \in BOOLEAN }

\* no thread runs; one function is about to be applied to one input
ProbeInit ==
  /\ cfg = CONFIG_DEFAULT
  /\ dry_run = FALSE
  /\ InitCollector
  /\ pc = EmptyMap
  /\ arg = EmptyMap
  /\ snap = EmptyMap
  /\ \/ probe \in DirectionProbes
     \/ probe \in ConfigProbes
     \/ probe \in ActionProbes

ProbeFrame ==
  UNCHANGED <<cfg, dry_run, lock, session, pc, arg, snap, res, line, nread,
              proc_terminated, reports, history>>

ApplyDirection ==
  /\ probe.fn = "determine_direction"
  /\ ~probe.done
  /\ probe' = [probe EXCEPT !.done = TRUE,
                            !.result = determine_direction(probe.dx, probe.dy, probe.threshold)]
  /\ ProbeFrame

ApplyConfig ==
  /\ probe.fn = "load_or_create_config"
  /\ ~probe.done
  /\ probe' = [probe EXCEPT !.done = TRUE, !.result = merge_config(probe.user)]
  /\ ProbeFrame

ApplyAction ==
  /\ probe.fn = "execute_action"
  /\ ~probe.done
  /\ probe' = [probe EXCEPT !.done = TRUE,
                            !.result = execute_action(probe.command, probe.dry_run, probe.ok)]
  /\ ProbeFrame

ProbeNext ==
  \/ ApplyDirection
  \/ ApplyConfig
  \/ ApplyAction

ProbeSpec == ProbeInit /\ [][ProbeNext]_vars

(* ------------------ several callers of one collector ------------------ *)

\* number of collector calls the producers make at most, all together
MaxCalls == 4

Producers == {"p1", "p2"}

CallArgs(op) ==
  IF op = "update"
    THEN { [NoArg EXCEPT !.dx = x, !.dy = y] : x \in {60, 0 - 60}, y \in {0, 60} }
    ELSE { [NoArg EXCEPT !.n = n] : n \in {3, 4} }

\* one GestureCollector shared by threads that call it directly
ConcInit ==
  /\ cfg = CONFIG_DEFAULT
  /\ dry_run = FALSE
  /\ InitCollector
  /\ pc = [p \in Producers |-> "idle"]
  /\ arg = [p \in Producers |-> NoArg]
  /\ snap = [p \in Producers |-> NoneT]
  /\ probe = NoProbe

\* producer p calls collector.begin, .update or .end; nread counts the calls
Call(p, op, a) ==
  /\ pc[p] = "idle"
  /\ nread < MaxCalls
  /\ nread' = nread + 1
  /\ arg' = [arg EXCEPT ![p] = a]
  /\ pc' = [pc EXCEPT ![p] = CASE op = "begin"  -> "begin_lock"
                                [] op = "update" -> "update_lock"
                                [] op = "end"    -> "end_lock"]
  /\ UNCHANGED <<probe, cfg, dry_run, lock, session, snap, res, line,
                 proc_terminated, reports, history>>

ConcNext ==
  \/ \E p \in Producers, op \in {"begin", "update", "end"} : \E a \in CallArgs(op) : Call(p, op, a)
  \/ \E p \in Producers : Acquire(p)
  \/ \E p \in Producers : begin(p)
  \/ \E p \in Producers : update(p)
  \/ \E p \in Producers : end(p)

ConcSpec == ConcInit /\ [][ConcNext]_vars

\* every thread keeps being scheduled, and a thread waiting for a lock that
\* is released again and again gets it in the end
ConcFairSpec ==
  /\ ConcSpec
  /\ \A p \in Producers : SF_vars(Acquire(p))
  /\ \A p \in Producers : WF_vars(begin(p) \/ update(p) \/ end(p))

(* ------------------------------ properties ----------------------------- *)

Directions == {"left", "right", "up", "down"}
Keys == {3, 4} \X Directions

\* the reports that close a gesture
OutcomeMsgs == {"ignored (too small)", "no mapping", "would execute", "executed", "failed"}
IsOutcome(r) == r.msg \in OutcomeMsgs
Outcomes == SelectSeq(out, IsOutcome)

\* the main thread is in end(), holding the lock, and found the session active
EndingActive == pc[Main] = "end_cs" /\ active

\* the direction the accumulated displacement classifies to
CurrentDirection == determine_direction(total_dx, total_dy, cfg.threshold)

Mapped(k) == Truthy(dict_get(cfg.gestures, k))

\* C1: begin(n), update(dx1,dy1) ... update(dxk,dyk), end(m) with no other
\* begin/end in between: end(m) returns (m, dx1+...+dxk, dy1+...+dyk) and
\* the session is inactive afterwards (unless the thread is interrupted).
C1_EndReturnsSnapshot ==
  \A m \in {3, 4} :
    (EndingActive /\ arg[Main].n = m)
      ~> \/ pc[Main] = "done"
         \/ /\ pc[Main] = "dispatch"
            /\ res = <<m, sum_dx, sum_dy>>
            /\ ~active

\* C2: an end line processed while the session is Active leads to an Idle
\* session and to exactly one dispatch outcome for that gesture (unless the
\* run loop is interrupted).
C2_EndLeadsToIdleAndOneOutcome ==
  (EndingActive /\ Len(Outcomes) = ngest)
    ~> \/ pc[Main] = "done"
       \/ /\ ~active
          /\ pc[Main] = "read"
          /\ Len(Outcomes) = ngest

\* C3: every begin, update and end call of the run loop completes; the run
\* loop can only block reading the next line: anywhere else it can take a step.
C3_OnlyReadBlocks ==
  pc[Main] \notin {"read", "done"} => ENABLED Internal

\* C4: begin(n), whatever the session state, leaves active = true,
\* fingers = n, total_dx = 0 and total_dy = 0.
C4_BeginResets ==
  [][ (pc[Main] = "begin_cs" /\ pc'[Main] \notin {"begin_cs", "done"})
        => /\ pc'[Main] = "read"
           /\ active'
           /\ fingers' = arg[Main].n
           /\ total_dx' = 0
           /\ total_dy' = 0 ]_vars

\* a begin has just overwritten an active session that had accumulated distance
C4_Witness ==
  /\ lastop = "begin"
  /\ pc[Main] = "read"
  /\ pre[1]
  /\ pre[3] # 0
  /\ pre[2] # fingers
  /\ active
  /\ total_dx = 0
  /\ total_dy = 0

\* C5: update(dx, dy) on an inactive session changes no session field, and
\* the begin that follows starts a session with zero totals.
C5_StrayUpdateIsNoop ==
  [][ /\ (pc[Main] = "update_cs" /\ ~active /\ pc'[Main] \notin {"update_cs", "done"})
           => (pc'[Main] = "read" /\ UNCHANGED session)
      /\ (pc[Main] = "begin_cs" /\ lastop = "update" /\ ~pre[1] /\ pc'[Main] = "read")
           => (active' /\ total_dx' = 0 /\ total_dy' = 0) ]_vars

\* a begin has started a zeroed session right after a stray non-zero update
C5_Witness ==
  /\ lastop = "begin"
  /\ prevop = "update"
  /\ sum_dx = 0
  /\ ~pre[1]
  /\ pre[3] = 0
  /\ pre[4] = 0
  /\ active
  /\ total_dx = 0
  /\ total_dy = 0

\* C6: end on an inactive session returns "no result", changes no session
\* field, and the run loop dispatches nothing for it.
C6_StrayEndReturnsNone ==
  [][ /\ (pc[Main] = "end_cs" /\ ~active /\ pc'[Main] \notin {"end_cs", "done"})
           => (pc'[Main] = "dispatch" /\ res' = NoneT /\ UNCHANGED session)
      /\ (pc[Main] = "dispatch" /\ res = NoneT /\ pc'[Main] \notin {"dispatch", "done"})
           => (pc'[Main] = "read" /\ UNCHANGED reports) ]_vars

\* two end calls in a row: the second one has returned "no result" and the
\* run loop is back at the read with nothing dispatched
C6_Witness ==
  /\ lastop = "end"
  /\ prevop = "end"
  /\ res = NoneT
  /\ pc[Main] = "read"
  /\ ~active
  /\ out = <<>>
  /\ invoked = <<>>

\* C7: a gesture ended with finger count f and direction d: if f_d is
\* mapped the action collaborator is invoked exactly once, with the mapped
\* command; if not, "no mapping" is reported, nothing is invoked and the run
\* loop continues (unless the run loop is interrupted).
C7_DispatchByMapping ==
  \A k \in Keys :
    (EndingActive /\ k = <<arg[Main].n, CurrentDirection>> /\ out = <<>> /\ invoked = <<>>)
      ~> \/ pc[Main] = "done"
         \/ /\ pc[Main] = "read"
            /\ IF Mapped(k)
                 THEN invoked = << [command |-> cfg.gestures[k], dry_run |-> dry_run] >>
                 ELSE /\ invoked = <<>>
                      /\ Len(out) > 0
                      /\ out[Len(out)] = Report("no mapping", k, None)

\* C8: the dispatch key carries the finger count of the end event, whatever
\* the begin event said (unless the run loop is interrupted).
C8_KeyUsesEndFingers ==
  \A k \in Keys :
    (EndingActive /\ k = <<arg[Main].n, CurrentDirection>> /\ out = <<>>)
      ~> \/ pc[Main] = "done"
         \/ /\ Len(out) > 0
            /\ out[1].msg = "detected"
            /\ out[1].key = k

BadUpdateLines ==
  { l \in UpdateLines : l.f1 \in BadDeltaTokens \/ l.f2 \in BadDeltaTokens }

\* C9: an update line whose delta fields are not numbers fails alone: the
\* run loop keeps reading and the session is as it was.
C9_BadUpdateIsLocal ==
  [][ (pc[Main] = "read" /\ nread' = nread + 1 /\ line' \in BadUpdateLines)
        => /\ pc'[Main] = "read"
           /\ ~proc_terminated'
           /\ UNCHANGED session ]_vars

\* C10: when run_daemon returns, termination of the upstream process has
\* been requested.
C10_TerminateBeforeReturn ==
  pc[Main] = "done" => proc_terminated

(* ---------------- properties of the functions on their own ------------ *)

Magnitude(x) == IF x >= 0 THEN x ELSE 0 - x

\* a >= b * ratio
DominatesBy(a, b, ratio) == a * ratio.den >= b * ratio.num

Classified == probe.fn = "determine_direction" /\ probe.done

\* C11: with px_min > 0 and axis_ratio > 1, determine_direction returns
\* right only if dx > 0 and |dx| >= |dy| * ratio, left only if dx < 0 and
\* |dx| >= |dy| * ratio, down only if dy > 0 and |dy| >= |dx| * ratio, up
\* only if dy < 0 and |dy| >= |dx| * ratio, and it returns one of the four
\* whenever max(|dx|, |dy|) >= px_min and one axis dominates by the ratio.
C11_DirectionMatchesDominantAxis ==
  Classified =>
    LET dx == probe.dx
        dy == probe.dy
        r  == probe.threshold.axis_ratio
        ax == Magnitude(dx)
        ay == Magnitude(dy)
        big == (ax >= probe.threshold.px_min) \/ (ay >= probe.threshold.px_min)
    IN /\ probe.result = "right" => (dx > 0 /\ DominatesBy(ax, ay, r))
       /\ probe.result = "left"  => (dx < 0 /\ DominatesBy(ax, ay, r))
       /\ probe.result = "down"  => (dy > 0 /\ DominatesBy(ay, ax, r))
       /\ probe.result = "up"    => (dy < 0 /\ DominatesBy(ay, ax, r))
       /\ (big /\ (DominatesBy(ax, ay, r) \/ DominatesBy(ay, ax, r)))
            => probe.result \in Directions

\* an upward swipe that just reaches both the minimum and the ratio
C11_Witness ==
  /\ Classified
  /\ probe.result = "up"
  /\ probe.threshold = CONFIG_DEFAULT.threshold
  /\ probe.dy = 0 - PX_MIN_DEFAULT - 1
  /\ probe.dx = 34

\* C12: whenever max(|dx|, |dy|) < px_min, determine_direction returns None,
\* whatever the ratio between the axes.
C12_TooSmallIsNone ==
  (Classified /\ Magnitude(probe.dx) < probe.threshold.px_min
              /\ Magnitude(probe.dy) < probe.threshold.px_min)
    => probe.result = None

\* a displacement on one axis only, just below the minimum
C12_Witness ==
  /\ Classified
  /\ probe.threshold.px_min = PX_MIN_DEFAULT
  /\ probe.dx = PX_MIN_DEFAULT - 1
  /\ probe.dy = 0
  /\ probe.result = None

\* C13: whenever |dx| = |dy| (and axis_ratio > 1), determine_direction
\* returns None, at every magnitude.
C13_DiagonalIsNone ==
  (Classified /\ Magnitude(probe.dx) = Magnitude(probe.dy))
    => probe.result = None

\* a diagonal at the largest magnitude, above the minimum
C13_Witness ==
  /\ Classified
  /\ probe.dx = MaxDelta
  /\ probe.dy = 0 - MaxDelta
  /\ MaxDelta >= probe.threshold.px_min
  /\ probe.result = None

Executed == probe.fn = "execute_action" /\ probe.done

\* C14: in dry-run mode execute_action launches nothing: a command only
\* produces the report of what would run.
C14_DryRunLaunchesNothing ==
  (Executed /\ probe.dry_run)
    => /\ probe.result.popen = <<>>
       /\ Truthy(probe.command)
            => probe.result.printed = << [msg |-> "would execute", key |-> NoneT, cmd |-> probe.command] >>

\* a mapped command went through execute_action in dry-run mode
C14_Witness ==
  /\ Executed
  /\ probe.dry_run
  /\ probe.command = "xdotool key Super"
  /\ Len(probe.result.printed) = 1
  /\ probe.result.popen = <<>>

Merged == probe.fn = "load_or_create_config" /\ probe.done

\* the user's value where the user gives one, the default otherwise
PerKeyMerge(default, user) ==
  [k \in DOMAIN default \cup DOMAIN user |-> IF k \in DOMAIN user THEN user[k] ELSE default[k]]

\* C18: the configuration of the run is the user's configuration merged over
\* the defaults key by key, in the gesture mapping and in the threshold
\* section, and the merge leaves the CONFIG_DEFAULT table as it was.
C18_MergePerKey ==
  Merged =>
    /\ probe.result.merged.gestures = PerKeyMerge(CONFIG_DEFAULT.gestures, probe.user.gestures)
    /\ probe.result.merged.threshold = PerKeyMerge(CONFIG_DEFAULT.threshold, probe.user.threshold)
    /\ probe.result.defaults = CONFIG_DEFAULT

\* the user overrides one default gesture, adds one, and sets px_min only
C18_Witness ==
  /\ Merged
  /\ DOMAIN probe.user.gestures = { <<3, "left">>, <<3, "up">> }
  /\ probe.user.gestures[<<3, "left">>] = "cmd-A"
  /\ DOMAIN probe.user.threshold = {"px_min"}
  /\ probe.result.merged.gestures[<<3, "left">>] = "cmd-A"
  /\ probe.result.merged.gestures[<<4, "up">>] = "xdotool key Super"
  /\ probe.result.merged.threshold.px_min = 100
  /\ probe.result.merged.threshold.axis_ratio = AXIS_RATIO_DEFAULT

(* ------------------- further properties of the run loop --------------- *)

\* a step of the run loop that reads a line
Reads == pc[Main] = "read" /\ nread' = nread + 1

\* C15: no timeout: an Active session stays Active over update lines and
\* non-matching lines, with every update accumulated; it stops being Active
\* only inside the end call (where reset runs), and a begin leaves it Active.
C15_ActiveUntilEnd ==
  [][ /\ (active /\ ~active') => pc[Main] = "reset_cs"
      /\ (active /\ Reads /\ line' \in UpdateLines \cup OtherLines) => active'
      /\ (active /\ pc[Main] \in {"begin_cs", "update_cs"}) => active'
      /\ active' => (total_dx' = sum_dx' /\ total_dy' = sum_dy') ]_vars

\* begin, two updates and a non-matching line later the session is still
\* Active and holds both updates
C15_Witness ==
  /\ active
  /\ pc[Main] = "read"
  /\ line \in OtherLines
  /\ lastop = "update"
  /\ prevop = "update"
  /\ total_dx = 120
  /\ total_dy = 0 - 120
  /\ last_time # <<Now>>

\* C17: a line that matches none of the three patterns causes no collector
\* call and no dispatch: the session is unchanged and the run loop is back at
\* the read.
C17_NoMatchIsIgnored ==
  [][ (Reads /\ line' \in OtherLines)
        => /\ pc'[Main] = "read"
           /\ UNCHANGED <<session, lock, arg, res, reports, history, proc_terminated>> ]_vars

\* a non-matching line has been read in the middle of a gesture
C17_Witness ==
  /\ line \in OtherLines
  /\ pc[Main] = "read"
  /\ active
  /\ total_dx # 0
  /\ lastop = "update"
  /\ prevop = "begin"
  /\ nread = 3

\* C19: while the session is not active, fingers = 0, total_dx = 0,
\* total_dy = 0 and last_time is absent.
C19_IdleSessionIsZero ==
  ~active => (fingers = 0 /\ total_dx = 0 /\ total_dy = 0 /\ last_time = NoneT)

\* a non-zero update has completed on an idle session
C19_Witness ==
  /\ ~active
  /\ lastop = "update"
  /\ pc[Main] = "read"
  /\ arg[Main].dx # 0
  /\ arg[Main].dy # 0
  /\ nread > 1

\* C20: a command is invoked only by the dispatch of an end that found the
\* session Active, whose displacement classifies to a direction d whose key
\* f_d is mapped, and it is the mapped command; the invocations never
\* outnumber the begin calls; reading a line, begin and update invoke nothing.
C20_InvokedOnlyByMappedEnd ==
  [][ /\ invoked' # invoked
           => /\ pc[Main] = "dispatch"
              /\ res # NoneT
              /\ lastop = "end"
              /\ pre[1]
              /\ LET d == determine_direction(res[2], res[3], cfg.threshold)
                     k == <<res[1], d>>
                 IN /\ d # None
                    /\ Mapped(k)
                    /\ invoked' = Append(invoked, [command |-> cfg.gestures[k], dry_run |-> dry_run])
      /\ Len(invoked') <= nbegin'
      /\ (Reads \/ pc[Main] \in {"begin_cs", "update_cs"}) => UNCHANGED <<invoked, launched>> ]_vars

\* a begin, an update and a non-matching line have been processed and
\* nothing has been invoked
C20_Witness ==
  /\ nbegin = 1
  /\ lastop = "update"
  /\ prevop = "begin"
  /\ line \in OtherLines
  /\ CurrentDirection # None
  /\ invoked = <<>>
  /\ launched = <<>>

(* ------------------ properties of concurrent callers ------------------ *)

\* positions inside a `with self.lock` block of begin, update or end
InCritical == {"begin_cs", "update_cs", "end_cs", "reset_lock", "reset_cs"}

\* C16: with several producers calling begin, update and end on one
\* collector, at most one is inside a critical section at a time, every call
\* completes in the end, and the session is what the completed calls give in
\* the order they ran (no update lost or applied twice).
C16_LockSerializes ==
  /\ [](Cardinality({ p \in Producers : pc[p] \in InCritical }) <= 1)
  /\ [](active => (total_dx = sum_dx /\ total_dy = sum_dy))
  /\ \A p \in Producers : (pc[p] # "idle") ~> (pc[p] = "idle")

=============================================================================
